---- MODULE Spec2Model ----
(***************************************************************************)
(* A model of deez, a dice notation roller.                                *)
(*   src/src/lib/lib.rs       RollExpression, Roll::roll                    *)
(*   src/src/lib/standard.rs  StandardNotation, From<Pair> for RollExpression*)
(*   src/src/bin/main.rs      main                                          *)
(* Spec is the library: one call of Roll::roll on a RollExpression (the     *)
(* struct and its fields are public).  MainSpec is the command line program.*)
(***************************************************************************)
EXTENDS Integers, Sequences, FiniteSets, TLC

VARIABLES
    expr,        \* the RollExpression being rolled (self)
    pc,          \* position inside Roll::roll / main
    explode_at,  \* Option<usize>: <<>> is None, <<n>> is Some(n)
    drawn,       \* iterations of `for _ in 0..self.count` started so far
    value,       \* `value`, the last draw
    rolls,       \* Vec<RollItem>
    total,       \* isize
    input,       \* the reconstructed notation, a sequence of characters
    panic,       \* the panic message, "" while none
    remaining,   \* command line arguments main has not taken yet
    arg,         \* the argument main is working on
    pending,     \* the expressions of arg not rolled yet
    printed,     \* number of results printed
    exit         \* how the process ended: "running", "ok", "err", "abort"

vars == <<expr, pc, explode_at, drawn, value, rolls, total, input, panic,
          remaining, arg, pending, printed, exit>>

rollVars == <<expr, pc, explode_at, drawn, value, rolls, total, input, panic>>
mainVars == <<remaining, arg, pending, printed, exit>>

----------------------------------------------------------------------------
(* Bounds of the model. *)

MaxFaces == 2
MaxCount == 2
MaxOperand == 2
MaxMods == 2
MaxPool == 3

----------------------------------------------------------------------------
(* Data: lib.rs *)

RetentionKinds == {"All", "Highest", "Lowest"}
ModifierKinds == {"Add", "Subtract", "Multiply", "Divide", "Explode"}

RollRetention ==
    {[kind |-> "All", n |-> 0]}
        \cup [kind : {"Highest", "Lowest"}, n : 0..(MaxCount + 1)]

RollModifier == [kind : ModifierKinds, n : 0..MaxOperand]

ModifierLists == UNION {[1..k -> RollModifier] : k \in 0..MaxMods}

RollExpression ==
    [faces : 1..MaxFaces, count : 1..MaxCount,
     retention : RollRetention, modifiers : ModifierLists]

Quality(v, faces) ==
    IF v = faces THEN "Good" ELSE IF v = 1 THEN "Bad" ELSE "Regular"

RollItem(v, faces) ==
    [value |-> v, retained |-> TRUE, quality |-> Quality(v, faces)]

RollItems == [value : Nat, retained : BOOLEAN, quality : {"Good", "Regular", "Bad"}]

(* rng.gen_range(1..=faces): every face of a small die; of a die with more   *)
(* than MaxFaces faces the low values and the highest one.                   *)
DrawValues(faces) == {v \in 1..faces : v <= MaxFaces \/ v = faces}

----------------------------------------------------------------------------
(* RollExpression::explodes_at: find_map stops at the first Explode, which   *)
(* is Some(n) or a panic.                                                    *)

RECURSIVE FirstExplode(_, _)
FirstExplode(mods, i) ==
    IF i > Len(mods) THEN 0
    ELSE IF mods[i].kind = "Explode" THEN i
    ELSE FirstExplode(mods, i + 1)

ThresholdInRange(n, faces) == n <= faces /\ n >= 1

ExplodesAt ==
    /\ pc = "explodes_at"
    /\ LET i == FirstExplode(expr.modifiers, 1) IN
         IF i = 0
         THEN /\ explode_at' = <<>>
              /\ pc' = "draw"
              /\ panic' = panic
         ELSE IF ThresholdInRange(expr.modifiers[i].n, expr.faces)
         THEN /\ explode_at' = <<expr.modifiers[i].n>>
              /\ pc' = "draw"
              /\ panic' = panic
         ELSE /\ explode_at' = explode_at
              /\ pc' = "panicked"
              /\ panic' = "Cannot explode above"
    /\ UNCHANGED <<expr, drawn, value, rolls, total, input>>
    /\ UNCHANGED mainVars

----------------------------------------------------------------------------
(* The draw loop. *)

(* Variants of ExplodeCond: a strict comparison; a threshold off by one. *)
ExplodeCond_strict(v, n) == v > n

ExplodeCond_offByOne(v, n) == v >= n - 1

ExplodeCond(v, n) == v >= n

(* One iteration of `for _ in 0..self.count` up to its first push. *)
Draw ==
    /\ pc = "draw"
    /\ drawn < expr.count
    /\ \E v \in DrawValues(expr.faces) :
         /\ value' = v
         /\ rolls' = Append(rolls, RollItem(v, expr.faces))
    /\ drawn' = drawn + 1
    /\ pc' = IF explode_at # <<>> /\ ExplodeCond(value', explode_at[1])
             THEN "explode" ELSE "draw"
    /\ UNCHANGED <<expr, explode_at, total, input, panic>>
    /\ UNCHANGED mainVars

(* One iteration of `while value >= n`.  The pool is capped at MaxPool: at   *)
(* the cap only a draw that ends the chain is taken.                         *)
Explode ==
    /\ pc = "explode"
    /\ \E v \in DrawValues(expr.faces) :
         /\ Len(rolls) + 1 < MaxPool \/ ~ExplodeCond(v, explode_at[1])
         /\ value' = v
         /\ rolls' = Append(rolls, RollItem(v, expr.faces))
    /\ pc' = IF ExplodeCond(value', explode_at[1]) THEN "explode" ELSE "draw"
    /\ UNCHANGED <<expr, explode_at, drawn, total, input, panic>>
    /\ UNCHANGED mainVars

----------------------------------------------------------------------------
(* Retention. *)

(* Vec::sort, as an insertion sort *)
Insert[s \in Seq(Nat), x \in Nat] ==
    IF s = <<>> THEN <<x>>
    ELSE IF x < Head(s) THEN <<x>> \o s
    ELSE <<Head(s)>> \o Insert[Tail(s), x]

SortAscending[s \in Seq(Nat)] ==
    IF s = <<>> THEN <<>> ELSE Insert[SortAscending[Tail(s)], Head(s)]

Sort(s) == SortAscending[s]

RECURSIVE Reverse(_)
Reverse(s) == IF s = <<>> THEN <<>> ELSE Append(Reverse(Tail(s)), Head(s))

Take(s, k) == SubSeq(s, 1, IF k < Len(s) THEN k ELSE Len(s))

RECURSIVE Values(_)
Values(items) ==
    IF items = <<>> THEN <<>> ELSE <<Head(items).value>> \o Values(Tail(items))

(* iter().position(|j| *j == v): the first index, 0 for None *)
RECURSIVE Position(_, _, _)
Position(s, v, i) ==
    IF i > Len(s) THEN 0
    ELSE IF s[i] = v THEN i
    ELSE Position(s, v, i + 1)

Remove(s, idx) == SubSeq(s, 1, idx - 1) \o SubSeq(s, idx + 1, Len(s))

(* rolls.iter_mut().for_each(...): in pool order, an item whose value is     *)
(* still among the removals takes one of them and is dropped.                *)
ForEachMark[items \in Seq(RollItems), removals \in Seq(Nat)] ==
    IF items = <<>> THEN <<>>
    ELSE LET i == Head(items)
             idx == Position(removals, i.value, 1)
         IN IF idx # 0
            THEN <<[i EXCEPT !.retained = FALSE]>>
                     \o ForEachMark[Tail(items), Remove(removals, idx)]
            ELSE <<i>> \o ForEachMark[Tail(items), removals]

(* Variant of MarkRemovals: the pool walked from its end. *)
MarkRemovals_fromEnd(items, removals) ==
    Reverse(ForEachMark[Reverse(items), removals])

MarkRemovals(items, removals) == ForEachMark[items, removals]

(* Variant of HighestRemovals: the values sorted the other way round. *)
HighestRemovals_descending(items, n) ==
    Take(Reverse(SortAscending[Values(items)]), Len(items) - n)

HighestRemovals(items, n) == Take(Sort(Values(items)), Len(items) - n)

LowestRemovals(items, n) == Take(Reverse(Sort(Values(items))), Len(items) - n)

(* Variant of RetentionExceeds: the bound is the size of the pool. *)
RetentionExceeds_pool(n, count) == n > Len(rolls)

RetentionExceeds(n, count) == n > count

----------------------------------------------------------------------------
(* The total and the modifiers. *)

RECURSIVE SumRetained(_)
SumRetained(items) ==
    IF items = <<>> THEN 0
    ELSE SumRetained(SubSeq(items, 1, Len(items) - 1))
           + (IF items[Len(items)].retained THEN items[Len(items)].value ELSE 0)

Abs(a) == IF a < 0 THEN -a ELSE a

(* Variant of IsizeDiv: the quotient rounded down. *)
IsizeDiv_floor(a, b) == a \div b

(* isize `/`: the quotient rounded toward zero *)
IsizeDiv(a, b) ==
    IF (a < 0) = (b < 0) THEN Abs(a) \div Abs(b) ELSE -(Abs(a) \div Abs(b))

ApplyModifier(t, m) ==
    CASE m.kind = "Add" -> t + m.n
      [] m.kind = "Subtract" -> t - m.n
      [] m.kind = "Multiply" -> t * m.n
      [] m.kind = "Divide" -> IsizeDiv(t, m.n)
      [] OTHER -> t

RECURSIVE ApplyModifiers(_, _, _)
ApplyModifiers(t, mods, i) ==
    IF i > Len(mods) THEN t
    ELSE ApplyModifiers(ApplyModifier(t, mods[i]), mods, i + 1)

DividesByZero(mods) ==
    \E i \in 1..Len(mods) : mods[i].kind = "Divide" /\ mods[i].n = 0

----------------------------------------------------------------------------
(* The reconstructed notation: format!("{}d{}{}{}", count, faces, ret, mod). *)

Digit == <<"0", "1", "2", "3", "4", "5", "6", "7", "8", "9">>

RECURSIVE Decimal(_)
Decimal(n) ==
    IF n < 10 THEN <<Digit[n + 1]>>
    ELSE Append(Decimal(n \div 10), Digit[(n % 10) + 1])

(* Variant of ModStr: the test for the default threshold inverted. *)
ModStr_inverted(m, faces) ==
    CASE m.kind = "Add" -> <<"+">> \o Decimal(m.n)
      [] m.kind = "Subtract" -> <<"-">> \o Decimal(m.n)
      [] m.kind = "Multiply" -> <<"x">> \o Decimal(m.n)
      [] m.kind = "Divide" -> <<"/">> \o Decimal(m.n)
      [] OTHER -> IF m.n = faces THEN <<"!">> \o Decimal(m.n) ELSE <<"!">>

ModStr(m, faces) ==
    CASE m.kind = "Add" -> <<"+">> \o Decimal(m.n)
      [] m.kind = "Subtract" -> <<"-">> \o Decimal(m.n)
      [] m.kind = "Multiply" -> <<"x">> \o Decimal(m.n)
      [] m.kind = "Divide" -> <<"/">> \o Decimal(m.n)
      [] OTHER -> IF m.n # faces THEN <<"!">> \o Decimal(m.n) ELSE <<"!">>

RECURSIVE ModsStr(_, _)
ModsStr(mods, faces) ==
    IF mods = <<>> THEN <<>>
    ELSE ModStr(Head(mods), faces) \o ModsStr(Tail(mods), faces)

RetStr(r) ==
    CASE r.kind = "Highest" -> <<"h">> \o Decimal(r.n)
      [] r.kind = "Lowest" -> <<"l">> \o Decimal(r.n)
      [] OTHER -> <<>>

CanonicalInput(e) ==
    Decimal(e.count) \o <<"d">> \o Decimal(e.faces)
        \o RetStr(e.retention) \o ModsStr(e.modifiers, e.faces)

Retained(items, r) ==
    CASE r.kind = "Highest" -> MarkRemovals(items, HighestRemovals(items, r.n))
      [] r.kind = "Lowest" -> MarkRemovals(items, LowestRemovals(items, r.n))
      [] OTHER -> items

(* The rest of roll() once the draw loop has ended: no more input is read.  *)
(* `match self.retention` (or its panic), the fold, the modifiers (or the   *)
(* panic of a division by zero), the notation, the RollResult.              *)
Finish ==
    /\ pc = "draw"
    /\ drawn = expr.count
    /\ LET r == expr.retention
       IN IF r.kind # "All" /\ RetentionExceeds(r.n, expr.count)
          THEN /\ pc' = "panicked"
               /\ panic' = "cannot remove that many"
               /\ UNCHANGED <<rolls, total, input>>
          ELSE IF DividesByZero(expr.modifiers)
          THEN /\ pc' = "panicked"
               /\ panic' = "attempt to divide by zero"
               /\ rolls' = Retained(rolls, r)
               /\ UNCHANGED <<total, input>>
          ELSE /\ pc' = "done"
               /\ panic' = panic
               /\ rolls' = Retained(rolls, r)
               /\ total' = ApplyModifiers(SumRetained(rolls'), expr.modifiers, 1)
               /\ input' = CanonicalInput(expr)
    /\ UNCHANGED <<expr, explode_at, drawn, value>>
    /\ UNCHANGED mainVars

----------------------------------------------------------------------------
(* The library: roll() called once on any RollExpression. *)

RollInit ==
    /\ explode_at = <<>>
    /\ drawn = 0
    /\ value = 0
    /\ rolls = <<>>
    /\ total = 0
    /\ input = <<>>
    /\ panic = ""

Init ==
    /\ expr \in RollExpression
    /\ pc = "explodes_at"
    /\ RollInit
    /\ remaining = 0
    /\ arg = <<>>
    /\ pending = <<>>
    /\ printed = 0
    /\ exit = "running"

----------------------------------------------------------------------------
(* The grammar, lib/standard.pest.  A notation is a sequence of characters; *)
(* a parsed RollExpression pair is                                          *)
(*   [count, faces : the matched text (<<>> when absent),                   *)
(*    retention : <<>> or <<[rule, text]>>, modifiers : Seq([rule, text])]  *)
(*   Rolls      := RollExpr+ EOI                                            *)
(*   RollExpr   := Dice Retention? Modifier*                                *)
(*   Dice       := Count? 'd' Faces        Count, Faces >= 1                *)
(*   Faces      := '%' | digit+                                             *)
(*   Retention  := ('h' | 'l') digit+                                       *)
(*   Modifier   := ('+' | '-' | 'x' | '/') digit+ | '!' digit*              *)
(* Blanks may stand before a retention or a modifier and between a          *)
(* modifier's sign and its number ("10d6 - 5").                             *)

IsDigit(c) == \E d \in 1..10 : Digit[d] = c

DigitValue(c) == (CHOOSE d \in 1..10 : Digit[d] = c) - 1

RECURSIVE DigitsEnd(_, _)
DigitsEnd(s, i) ==
    IF i <= Len(s) /\ IsDigit(s[i]) THEN DigitsEnd(s, i + 1) ELSE i

RECURSIVE SkipBlanks(_, _)
SkipBlanks(s, i) ==
    IF i <= Len(s) /\ s[i] = " " THEN SkipBlanks(s, i + 1) ELSE i

(* str::parse::<usize> of a run of digits *)
RECURSIVE ParseUsize(_)
ParseUsize(text) ==
    IF text = <<>> THEN 0
    ELSE 10 * ParseUsize(SubSeq(text, 1, Len(text) - 1))
           + DigitValue(text[Len(text)])

CharAt(s, i) == IF i <= Len(s) THEN s[i] ELSE ""

NoMatch == [ok |-> FALSE, next |-> 0]

GrammarDice(s, i) ==
    LET j == DigitsEnd(s, i)
        countText == SubSeq(s, i, j - 1)
        k == DigitsEnd(s, j + 1)
        facesText == SubSeq(s, j + 1, k - 1)
    IN IF (countText # <<>> /\ ParseUsize(countText) = 0) \/ CharAt(s, j) # "d"
       THEN NoMatch
       ELSE IF CharAt(s, j + 1) = "%"
       THEN [ok |-> TRUE, next |-> j + 2, count |-> countText, faces |-> <<"%">>]
       ELSE IF facesText # <<>> /\ ParseUsize(facesText) >= 1
       THEN [ok |-> TRUE, next |-> k, count |-> countText, faces |-> facesText]
       ELSE NoMatch

GrammarRetention(s, i) ==
    LET j == SkipBlanks(s, i)
        k == DigitsEnd(s, j + 1)
    IN IF CharAt(s, j) \in {"h", "l"} /\ k > j + 1
       THEN [ok |-> TRUE, next |-> k,
             pair |-> [rule |-> IF s[j] = "h" THEN "RetentionHighest"
                                ELSE "RetentionLowest",
                       text |-> SubSeq(s, j + 1, k - 1)]]
       ELSE NoMatch

ModifierRule(c) ==
    CASE c = "+" -> "ModifierAdd"
      [] c = "-" -> "ModifierSubtract"
      [] c = "x" -> "ModifierMultiply"
      [] c = "/" -> "ModifierDivide"
      [] OTHER -> "ModifierExplode"

GrammarModifier(s, i) ==
    LET j == SkipBlanks(s, i)
        d == SkipBlanks(s, j + 1)
        k == DigitsEnd(s, d)
    IN IF CharAt(s, j) \in {"+", "-", "x", "/"} /\ k > d
       THEN [ok |-> TRUE, next |-> k,
             pair |-> [rule |-> ModifierRule(s[j]), text |-> SubSeq(s, d, k - 1)]]
       ELSE IF CharAt(s, j) = "!"
       THEN LET e == DigitsEnd(s, j + 1) IN
            [ok |-> TRUE, next |-> e,
             pair |-> [rule |-> "ModifierExplode", text |-> SubSeq(s, j + 1, e - 1)]]
       ELSE NoMatch

RECURSIVE GrammarModifiers(_, _, _)
GrammarModifiers(s, i, acc) ==
    LET m == GrammarModifier(s, i)
    IN IF m.ok THEN GrammarModifiers(s, m.next, Append(acc, m.pair))
       ELSE [next |-> i, pairs |-> acc]

GrammarRollExpression(s, i) ==
    LET dice == GrammarDice(s, i)
    IN IF ~dice.ok THEN NoMatch
       ELSE LET r == GrammarRetention(s, dice.next)
                ms == GrammarModifiers(s, IF r.ok THEN r.next ELSE dice.next, <<>>)
            IN [ok |-> TRUE, next |-> ms.next,
                pair |-> [count |-> dice.count, faces |-> dice.faces,
                          retention |-> IF r.ok THEN <<r.pair>> ELSE <<>>,
                          modifiers |-> ms.pairs]]

RECURSIVE GrammarRollExpressions(_, _, _)
GrammarRollExpressions(s, i, acc) ==
    LET e == GrammarRollExpression(s, SkipBlanks(s, i))
    IN IF e.ok THEN GrammarRollExpressions(s, e.next, Append(acc, e.pair))
       ELSE [next |-> i, pairs |-> acc]

(* StandardNotation::parse(Rule::Rolls, input) *)
GrammarRolls(s) ==
    LET es == GrammarRollExpressions(s, 1, <<>>)
    IN IF es.pairs # <<>> /\ SkipBlanks(s, es.next) = Len(s) + 1
       THEN [ok |-> TRUE, pairs |-> es.pairs]
       ELSE [ok |-> FALSE, pairs |-> <<>>]

----------------------------------------------------------------------------
(* The expression builder, standard.rs *)

DefaultCount == 1
DefaultFaces == 6
PercentFaces == 100

FromRetention(pairs) ==
    IF pairs = <<>> THEN [kind |-> "All", n |-> 0]
    ELSE [kind |-> IF pairs[1].rule = "RetentionHighest" THEN "Highest" ELSE "Lowest",
          n |-> ParseUsize(pairs[1].text)]

(* n.unwrap_or(faces): the parse of an empty text is an Err *)
FromModifier(pair, faces) ==
    CASE pair.rule = "ModifierAdd" -> [kind |-> "Add", n |-> ParseUsize(pair.text)]
      [] pair.rule = "ModifierSubtract" ->
             [kind |-> "Subtract", n |-> ParseUsize(pair.text)]
      [] pair.rule = "ModifierMultiply" ->
             [kind |-> "Multiply", n |-> ParseUsize(pair.text)]
      [] pair.rule = "ModifierDivide" ->
             [kind |-> "Divide", n |-> ParseUsize(pair.text)]
      [] OTHER ->
             [kind |-> "Explode",
              n |-> IF pair.text = <<>> THEN faces ELSE ParseUsize(pair.text)]

FromPair(pair) ==
    LET count == IF pair.count = <<>> THEN DefaultCount ELSE ParseUsize(pair.count)
        faces == IF pair.faces = <<>> THEN DefaultFaces
                 ELSE IF pair.faces = <<"%">> THEN PercentFaces
                 ELSE ParseUsize(pair.faces)
    IN [faces |-> faces,
        count |-> count,
        retention |-> FromRetention(pair.retention),
        modifiers |-> [i \in 1..Len(pair.modifiers) |->
                          FromModifier(pair.modifiers[i], faces)]]

(* RollExpression::from_pairs *)
FromPairs(pairs) == [i \in 1..Len(pairs) |-> FromPair(pairs[i])]

(* StandardNotation::parse_from_str: Err(InvalidData) or Ok(expressions) *)
ParseFromStr(s) ==
    LET g == GrammarRolls(s)
    IN IF g.ok THEN [ok |-> TRUE, exprs |-> FromPairs(g.pairs)]
       ELSE [ok |-> FALSE, exprs |-> <<>>]

(* The regression lists of standard.rs's tests. *)
LEGAL_ROLLS ==
    { <<"d", "2", "0">>, <<"1", "d", "2", "0">>,
      <<"3", "d", "1", "0", "+", "3">>,
      <<"1", "0", "d", "6", " ", "-", " ", "5">>,
      <<"d", "6", "x", "4">>, <<"8", "d", "8", " ", "/", " ", "2">>,
      <<"d", "%">>, <<"1", "2", "d", "%">> }

ILLEGAL_ROLLS ==
    { <<"d", "0">>, <<"0", "d", "6">>, <<"3", "d", "1", "0", " ", "3", "+">>,
      <<"%", "d">>, <<"-", "2", "d", "6">>, <<"2", "/", "1", "d", "8">>,
      <<"d", "%", "2", "0">>, <<"%", "d", "1", "0">> }

ParsesAllExamples == \A s \in LEGAL_ROLLS : GrammarRolls(s).ok

FailsAllBadExamples == \A s \in ILLEGAL_ROLLS : ~GrammarRolls(s).ok

----------------------------------------------------------------------------
(* The command line arguments the model draws from: every notation of at    *)
(* most MaxChars characters made of one or more written roll expressions    *)
(* (count omitted or written, faces as digits or %, any retention, any run  *)
(* of modifiers, a modifier's sign also set off by blanks), and the         *)
(* rejected examples of the tests.                                          *)

MaxChars == 6
MaxArgs == 2

CountTexts == {<<>>} \cup {Decimal(c) : c \in 1..MaxCount}

FacesTexts == {<<"%">>} \cup {Decimal(f) : f \in 1..MaxFaces}

RetentionTexts ==
    {<<>>} \cup {<<k>> \o Decimal(n) : k \in {"h", "l"}, n \in 0..(MaxCount + 1)}

ModifierTexts ==
    {<<"!">>}
        \cup {<<"!">> \o Decimal(n) : n \in 0..MaxOperand}
        \cup {<<c>> \o Decimal(n) : c \in {"+", "-", "x", "/"}, n \in 0..MaxOperand}
        \cup {<<" ", c, " ">> \o Decimal(n) :
                  c \in {"+", "-", "x", "/"}, n \in 0..MaxOperand}

RECURSIVE ModifiersTexts(_)
ModifiersTexts(room) ==
    {<<>>} \cup UNION {{m \o t : t \in ModifiersTexts(room - Len(m))} :
                          m \in {x \in ModifierTexts : Len(x) <= room}}

DiceTexts == {c \o <<"d">> \o f : c \in CountTexts, f \in FacesTexts}

ExpressionTexts(room) ==
    UNION {UNION {{d \o r \o m : m \in ModifiersTexts(room - Len(d) - Len(r))} :
                     r \in {x \in RetentionTexts : Len(d) + Len(x) <= room}} :
              d \in {x \in DiceTexts : Len(x) <= room}}

RECURSIVE NotationTexts(_)
NotationTexts(room) ==
    LET first == ExpressionTexts(room)
    IN first \cup UNION {{e \o t : t \in NotationTexts(room - Len(e))} :
                            e \in {x \in first : Len(x) + 2 <= room}}

Notations == NotationTexts(MaxChars) \cup ILLEGAL_ROLLS

----------------------------------------------------------------------------
(* main.  `args.rolls` is read front to back and an argument has no effect  *)
(* before main takes it: the model draws each argument when it is taken.    *)

(* `for input in args.rolls { let rolls = parse_from_str(&input)?; ...`:    *)
(* on Err main returns it and the process ends.                             *)
TakeArg ==
    /\ pc = "main"
    /\ exit = "running"
    /\ pending = <<>>
    /\ remaining > 0
    /\ \E s \in Notations :
         /\ arg' = s
         /\ LET parsed == ParseFromStr(s) IN
              IF parsed.ok
              THEN /\ pending' = parsed.exprs
                   /\ exit' = exit
              ELSE /\ pending' = pending
                   /\ exit' = "err"
    /\ remaining' = remaining - 1
    /\ UNCHANGED <<printed>>
    /\ UNCHANGED rollVars

(* no expression is in scope *)
NoExpression ==
    [faces |-> 0, count |-> 0, retention |-> [kind |-> "All", n |-> 0],
     modifiers |-> <<>>]

(* `for mut r in rolls { ... r.roll() ...`: roll() is entered *)
CallRoll ==
    /\ pc = "main"
    /\ exit = "running"
    /\ pending # <<>>
    /\ expr' = Head(pending)
    /\ pending' = Tail(pending)
    /\ pc' = "explodes_at"
    /\ explode_at' = <<>>
    /\ drawn' = 0
    /\ value' = 0
    /\ rolls' = <<>>
    /\ total' = 0
    /\ input' = <<>>
    /\ panic' = ""
    /\ UNCHANGED <<remaining, arg, printed, exit>>

(* println! of the result (or of its total); the iteration ends, and with  *)
(* it the expression and its result go out of scope, as does the argument  *)
(* after its last expression.                                              *)
PrintResult ==
    /\ pc = "done"
    /\ exit = "running"
    /\ printed' = printed + 1
    /\ pc' = "main"
    /\ expr' = NoExpression
    /\ explode_at' = <<>>
    /\ drawn' = 0
    /\ value' = 0
    /\ rolls' = <<>>
    /\ total' = 0
    /\ input' = <<>>
    /\ panic' = ""
    /\ arg' = IF pending = <<>> THEN <<>> ELSE arg
    /\ UNCHANGED <<remaining, pending, exit>>

(* a panic in roll() unwinds main: the process aborts *)
Abort ==
    /\ pc = "panicked"
    /\ exit = "running"
    /\ exit' = "abort"
    /\ UNCHANGED rollVars
    /\ UNCHANGED <<remaining, arg, pending, printed>>

(* Ok(()) *)
ReturnOk ==
    /\ pc = "main"
    /\ exit = "running"
    /\ pending = <<>>
    /\ remaining = 0
    /\ exit' = "ok"
    /\ UNCHANGED rollVars
    /\ UNCHANGED <<remaining, arg, pending, printed>>

MainInit ==
    /\ expr = NoExpression
    /\ pc = "main"
    /\ RollInit
    /\ remaining \in 0..MaxArgs
    /\ arg = <<>>
    /\ pending = <<>>
    /\ printed = 0
    /\ exit = "running"

MainNext ==
    \/ TakeArg
    \/ CallRoll
    \/ ExplodesAt
    \/ Draw
    \/ Explode
    \/ Finish
    \/ PrintResult
    \/ Abort
    \/ ReturnOk

MainSpec == MainInit /\ [][MainNext]_vars

----------------------------------------------------------------------------
Next ==
    \/ ExplodesAt
    \/ Draw
    \/ Explode
    \/ Finish

Spec == Init /\ [][Next]_vars

----------------------------------------------------------------------------
(* Termination.  A chain may outgrow MaxPool: the draws beyond the cap go   *)
(* on but are not recorded in the pool.                                     *)

ExplodeBeyond ==
    /\ pc = "explode"
    /\ Len(rolls) + 1 >= MaxPool
    /\ \E v \in DrawValues(expr.faces) :
         /\ ExplodeCond(v, explode_at[1])
         /\ value' = v
    /\ UNCHANGED <<expr, pc, explode_at, drawn, rolls, total, input, panic>>
    /\ UNCHANGED mainVars

(* a draw below the threshold: the chain ends *)
ChainEnds == Explode /\ pc' = "draw"

FairNext ==
    \/ ExplodesAt
    \/ Draw
    \/ Explode
    \/ ExplodeBeyond
    \/ Finish

(* roll() runs on: each step of straight-line code is taken.  Fair draws:   *)
(* a chain that can end (some face lies below the threshold) does end.      *)
FairSpec ==
    /\ Init
    /\ [][FairNext]_vars
    /\ WF_vars(ExplodesAt)
    /\ WF_vars(Draw)
    /\ WF_vars(Finish)
    /\ WF_vars(ChainEnds)

----------------------------------------------------------------------------
(* Properties. *)

Indices == 1..Len(rolls)
RetainedIndices == {i \in Indices : rolls[i].retained}
DroppedIndices == Indices \ RetainedIndices
RetentionPanic == "cannot remove that many"

(* C1: in a completed roll with Highest(n) or Lowest(n) exactly n outcomes  *)
(* are retained and they are the n largest (Highest) or n smallest (Lowest) *)
(* values of the whole pool, exploded extras included: no dropped outcome   *)
(* beats a retained one; under All every outcome is retained.               *)
C1_RetainedAreTheExtremes ==
    pc = "done" =>
        CASE expr.retention.kind = "Highest" ->
                 /\ Cardinality(RetainedIndices) = expr.retention.n
                 /\ \A i \in RetainedIndices : \A j \in DroppedIndices :
                        rolls[i].value >= rolls[j].value
          [] expr.retention.kind = "Lowest" ->
                 /\ Cardinality(RetainedIndices) = expr.retention.n
                 /\ \A i \in RetainedIndices : \A j \in DroppedIndices :
                        rolls[i].value <= rolls[j].value
          [] OTHER -> DroppedIndices = {}

C1_Witness ==
    /\ pc = "done"
    /\ expr.retention.kind = "Highest"
    /\ Len(rolls) > expr.count
    /\ RetainedIndices # {}
    /\ \E i \in RetainedIndices : \E j \in DroppedIndices :
           rolls[i].value > rolls[j].value

(* C2: in a completed roll with threshold t the pool is count consecutive   *)
(* chains, each ending on its only value below t: exactly count values are  *)
(* below t and the last outcome is one of them; the pool has count outcomes *)
(* exactly when no draw reached t, and when no threshold is set.            *)
C2_ChainsEndBelowThreshold ==
    pc = "done" =>
        /\ Len(rolls) >= expr.count
        /\ IF explode_at = <<>>
           THEN /\ Len(rolls) = expr.count
                /\ FirstExplode(expr.modifiers, 1) = 0
           ELSE LET t == explode_at[1] IN
                /\ Cardinality({i \in Indices : rolls[i].value < t}) = expr.count
                /\ rolls[Len(rolls)].value < t
                /\ (Len(rolls) = expr.count)
                       <=> (\A i \in Indices : rolls[i].value < t)

C2_Witness ==
    /\ pc = "done"
    /\ explode_at # <<>>
    /\ Len(rolls) > expr.count
    /\ \E i \in Indices : rolls[i].value < explode_at[1] /\ i < Len(rolls)

(* the quotient of a by b > 0 rounded toward zero, by its defining property *)
TowardZero(a, b) ==
    CHOOSE q \in (0 - Abs(a))..Abs(a) :
        /\ Abs(a - q * b) < b
        /\ (a >= 0 => (0 <= q * b /\ q * b <= a))
        /\ (a < 0 => (a <= q * b /\ q * b <= 0))

RECURSIVE SignedSumFrom(_)
SignedSumFrom(i) ==
    IF i > Len(rolls) THEN 0
    ELSE (IF rolls[i].retained THEN rolls[i].value ELSE 0) + SignedSumFrom(i + 1)

(* the total after the first k modifiers of the expression *)
RECURSIVE TotalAfter(_)
TotalAfter(k) ==
    IF k = 0 THEN SignedSumFrom(1)
    ELSE LET t == TotalAfter(k - 1)
             m == expr.modifiers[k]
         IN CASE m.kind = "Add" -> t + m.n
              [] m.kind = "Subtract" -> t - m.n
              [] m.kind = "Multiply" -> t * m.n
              [] m.kind = "Divide" -> TowardZero(t, m.n)
              [] m.kind = "Explode" -> t

(* C3: the total of a completed roll is the sum of the retained values      *)
(* taken through the modifiers in their declared order: Add adds, Subtract  *)
(* subtracts, Multiply scales, Divide divides rounding toward zero (also a  *)
(* negative running total), Explode changes nothing wherever it stands.     *)
C3_TotalFollowsModifiers ==
    pc = "done" => total = TotalAfter(Len(expr.modifiers))

C3_Witness ==
    /\ pc = "done"
    /\ \E k \in 1..Len(expr.modifiers) :
           /\ expr.modifiers[k].kind = "Divide"
           /\ TotalAfter(k - 1) < 0
           /\ TotalAfter(k - 1) % expr.modifiers[k].n # 0
           /\ \E j \in 1..(k - 1) : expr.modifiers[j].kind = "Subtract"

(* C4: a failure (a rejected notation, a failing expression) never stops    *)
(* the processing of the remaining inputs: the process does not end on a    *)
(* failure while arguments or sibling expressions are still to be handled.  *)
C4_ErrorsAreLocal ==
    exit \in {"err", "abort"} => (remaining = 0 /\ pending = <<>>)

(* C5: no expression built from notation reaches evaluation, and no roll    *)
(* produces a result, with an Explode modifier (the first or a later one)   *)
(* whose threshold is outside [1, faces]: the builder raises it.            *)
C5_ThresholdsCheckedAtBuild ==
    pc \in {"explodes_at", "draw", "explode", "done", "panicked"} =>
        \A i \in 1..Len(expr.modifiers) :
            expr.modifiers[i].kind = "Explode" =>
                (1 <= expr.modifiers[i].n /\ expr.modifiers[i].n <= expr.faces)

(* C6: evaluating an expression that contains Divide(0) never aborts the    *)
(* program on the division.                                                 *)
C6_DivideByZeroIsRecoverable ==
    DividesByZero(expr.modifiers) => panic # "attempt to divide by zero"

(* C7, as claimed: an evaluation with Highest(n) or Lowest(n) that ends,    *)
(* ends in the retention failure exactly when n > count.                    *)
C7_FailsExactlyWhenExceeds ==
    (pc \in {"done", "panicked"} /\ expr.retention.kind # "All") =>
        ((panic = RetentionPanic) <=> (expr.retention.n > expr.count))

FirstThresholdInRange ==
    LET i == FirstExplode(expr.modifiers, 1)
    IN i = 0 \/ (1 <= expr.modifiers[i].n /\ expr.modifiers[i].n <= expr.faces)

(* C7, amended: with Highest(n) or Lowest(n) no result is returned when     *)
(* n > count, whatever the size of the exploded pool; the retention failure *)
(* occurs only when n > count; and an evaluation with n > count that ends   *)
(* ends in the retention failure exactly when the explosion threshold       *)
(* resolved (else the threshold failure came first).                        *)
C7_RetentionBoundIsCount ==
    expr.retention.kind # "All" =>
        /\ pc = "done" => expr.retention.n <= expr.count
        /\ panic = RetentionPanic => expr.retention.n > expr.count
        /\ (pc = "panicked" /\ expr.retention.n > expr.count) =>
               ((panic = RetentionPanic) <=> FirstThresholdInRange)

C7_Witness ==
    /\ panic = RetentionPanic
    /\ Len(rolls) > expr.count
    /\ Len(rolls) >= expr.retention.n

(* C8: parsing the reconstructed notation of a completed roll yields        *)
(* exactly the rolled expression: count, faces, retention and the ordered   *)
(* modifiers with their thresholds.                                         *)
C8_CanonicalRoundTrip ==
    pc = "done" => ParseFromStr(input) = [ok |-> TRUE, exprs |-> <<expr>>]

C8_Witness ==
    /\ pc = "done"
    /\ arg # input
    /\ expr.faces = PercentFaces
    /\ expr.retention.kind # "All"
    /\ Len(expr.modifiers) >= 2
    /\ expr.modifiers[1].kind = "Explode"
    /\ expr.modifiers[1].n = expr.faces

(* C9: among outcomes of one value the dropped ones come first in roll      *)
(* order: a dropped outcome has no retained outcome of its value before it. *)
C9_TiesDropTheEarlier ==
    pc = "done" =>
        \A i, j \in Indices :
            (i < j /\ rolls[i].value = rolls[j].value /\ ~rolls[j].retained)
                => ~rolls[i].retained

C9_Witness ==
    /\ pc = "done"
    /\ \E i, j \in Indices :
           /\ i < j
           /\ rolls[i].value = rolls[j].value
           /\ ~rolls[i].retained
           /\ rolls[j].retained

ValidExpression ==
    /\ expr.retention.kind # "All" => expr.retention.n <= expr.count
    /\ ~DividesByZero(expr.modifiers)
    /\ FirstThresholdInRange

FirstThreshold ==
    LET i == FirstExplode(expr.modifiers, 1)
    IN IF i = 0 THEN 0 ELSE expr.modifiers[i].n

(* C10: under fair draws the roll of a valid expression with no Explode or  *)
(* with a threshold in [2, faces] completes; with threshold 1 no draw ends  *)
(* the first chain and the roll never leaves it.                            *)
C10_Terminates ==
    /\ (ValidExpression /\ FirstThreshold # 1) ~> (pc = "done")
    /\ [](FirstThreshold = 1 => (pc \in {"explodes_at", "explode"}
                                   \/ (pc = "draw" /\ drawn = 0)))

C10_Witness ==
    /\ pc = "done"
    /\ explode_at # <<>>
    /\ Len(rolls) = MaxPool
    /\ Len(rolls) > expr.count + 1

====
